---- MODULE Spec2Model ----
(***************************************************************************)
(* The generation pipeline of ergogen-gui: ConfigContextProvider           *)
(* (src/src/context/ConfigContext.tsx).  The provider debounces edits,     *)
(* posts "generate" messages to the Ergogen worker, and on success posts   *)
(* a "batch_jscad_to_stl" message to the JSCAD worker; the responses are   *)
(* handled by handleErgogenWorkerMessage and handleJscadWorkerMessage.     *)
(* React runs every handler, effect and timer callback to completion on    *)
(* one thread, so each of them is one atomic action here.                  *)
(***************************************************************************)
EXTENDS Integers, Sequences, FiniteSets, TLC

(***************************************************************************)
(* Bounds of the model                                                     *)
(***************************************************************************)
\* Dispatches are explored up to this value of currentConfigVersion.
MaxVersion == 2
\* Debounce timers left pending on earlier processInput instances.
MaxOrphans == 1
\* Time advances in steps of at most TickMs milliseconds.
TickMs == 150

(***************************************************************************)
(* Program constants                                                       *)
(***************************************************************************)
\* debounce(runGeneration, 300)
DebounceWait == 300

Null == "null"

(***************************************************************************)
(* Inputs.  A config text is "" (empty or undefined), "kbd" (parses to a   *)
(* document with points, pcbs and cases) or "kle" (does not parse to a     *)
(* document with a points section).                                        *)
(***************************************************************************)
Configs == {"", "kbd", "kle"}
Injections == {"inj0", "inj1"}
KiCad5Warning == "KiCad 5 is deprecated"
PostError == "DataCloneError"
WorkerErrors == {"ergogen failed"}
HashErrors == {Null, "hash error"}

\* Results | null.  ver is the RequestVersion of the generate message the
\* document was computed for (the number in its requestId); cases is "none"
\* (no case), "nojscad" (a case without jscad) or "jscad" (a case with
\* jscad); stl is the case's stl field: "absent", "undefined" (set to
\* undefined: conversion owed) or "mesh".
NoResults == [ver |-> 0, cases |-> Null, stl |-> Null]

\* A worker response.  cycle is history: the RequestVersion of the generate
\* message that began the cycle the response belongs to.
NoResponse == [type |-> Null, error |-> Null, results |-> NoResults,
               warnings |-> <<>>, configVersion |-> 0, cycle |-> 0]
\* History of one call of runGeneration: who called (via), the arguments,
\* whether a generate message was posted or postMessage threw, and for a
\* debounced call the time since the last processInput call (elapsed) and
\* whether that call followed another within the wait (coalesced).
NoCall == [via |-> Null, textInput |-> Null, injectionInput |-> Null,
           pointsonly |-> FALSE, debug |-> FALSE, elapsed |-> 0,
           coalesced |-> FALSE, posted |-> FALSE, threw |-> FALSE]
\* A debounced function's pending call: the latest arguments and the time
\* left; elapsed and coalesced are history.
NoTimer == [pending |-> FALSE, textInput |-> "", injectionInput |-> Null,
            pointsonly |-> FALSE, debug |-> FALSE, remaining |-> 0,
            elapsed |-> 0, coalesced |-> FALSE]

\* No preview: previewPcb is null.  A preview is told by the footprint it
\* was made of.
NoPcb == [name |-> Null, content |-> Null]

\* ConfigContext.tsx 258: no footprint selected
emptyFootprint == [key |-> -1, type |-> "", name |-> "", content |-> ""]

VARIABLES
  mounted,               \* the provider's mount effects have run
  configInput,           \* prop configInput
  injectionInput,        \* useLocalStorage('ergogen:injection')
  debug, autoGen, autoGen3D, stlPreview,    \* settings
  error, deprecationWarning,
  results, resultsVersion,
  isGenerating, isJscadConverting,
  ergogenWorkerRef, jscadWorkerRef,         \* "live" or Null
  currentConfigVersion,
  ergogenInbox,          \* generate messages posted and not yet answered
  jscadInbox,            \* batch_jscad_to_stl messages posted and not yet answered
  timer,                 \* the pending call of the current processInput
  orphans,               \* pending calls of earlier processInput instances
  op                     \* history: the operation that ran last

\* FootprintManager.  In its specifications injectionInput is spelled out as
\* the list of <<type, name, content>> entries; the pipeline only passes the
\* injections on and keeps them opaque.
VARIABLES
  footprintToEdit,       \* the edit selection (context state)
  autoSaveDue,           \* a render changed footprintToEdit or injectionInput
  previewPcb, previewError, isPreviewLoading,
  previewKeyRef,
  previewTimeoutRef,     \* the auto-preview timeout is pending
  previewWorkers         \* temporary workers that have not answered yet

fmVars == <<footprintToEdit, autoSaveDue, previewPcb, previewError,
            isPreviewLoading, previewKeyRef, previewTimeoutRef, previewWorkers>>

vars == <<mounted, configInput, injectionInput, debug, autoGen, autoGen3D,
          stlPreview, error, deprecationWarning, results, resultsVersion,
          isGenerating, isJscadConverting, ergogenWorkerRef, jscadWorkerRef,
          currentConfigVersion, ergogenInbox, jscadInbox, timer, orphans, op,
          footprintToEdit, autoSaveDue, previewPcb, previewError,
          isPreviewLoading, previewKeyRef, previewTimeoutRef, previewWorkers>>

\* The state the callbacks read and write, as one record.
St == [error |-> error, deprecationWarning |-> deprecationWarning,
       results |-> results, resultsVersion |-> resultsVersion,
       isGenerating |-> isGenerating, isJscadConverting |-> isJscadConverting,
       ergogenWorkerRef |-> ergogenWorkerRef, jscadWorkerRef |-> jscadWorkerRef,
       currentConfigVersion |-> currentConfigVersion,
       ergogenInbox |-> ergogenInbox, jscadInbox |-> jscadInbox,
       timer |-> timer]

Commit(s) ==
  /\ error' = s.error
  /\ deprecationWarning' = s.deprecationWarning
  /\ results' = s.results
  /\ resultsVersion' = s.resultsVersion
  /\ isGenerating' = s.isGenerating
  /\ isJscadConverting' = s.isJscadConverting
  /\ ergogenWorkerRef' = s.ergogenWorkerRef
  /\ jscadWorkerRef' = s.jscadWorkerRef
  /\ currentConfigVersion' = s.currentConfigVersion
  /\ ergogenInbox' = s.ergogenInbox
  /\ jscadInbox' = s.jscadInbox
  /\ timer' = s.timer
  /\ UNCHANGED fmVars

(***************************************************************************)
(* parseConfig: JSON.parse, then yaml.load; null when neither parses to a  *)
(* document.                                                               *)
(***************************************************************************)
parseConfig(inputString) ==
  IF inputString = "kbd"
    THEN [points |-> TRUE, pcbs |-> "ceoloide", cases |-> TRUE]
    ELSE [points |-> FALSE, pcbs |-> Null, cases |-> FALSE]

\* A line of the warning text: the message, and (history) the RequestVersion
\* of the cycle that raised it.
ScanWarning(v) == <<KiCad5Warning, v>>
WorkerWarning(v) == <<"ergogen warning", v>>

\* The KiCad 5 scan of runGeneration.
DeprecatedFootprint(parsedConfig) == parsedConfig.pcbs = "ceoloide"

\* A variant of InputConfigOf that strips whenever pointsonly is set.
InputConfigOf_StripsWithoutPoints(textInput, options) ==
  IF options.pointsonly
    THEN [text |-> textInput, stripped |-> TRUE]
    ELSE [text |-> textInput, stripped |-> FALSE]

\* The inputConfig of the generate message: the text, or the parsed
\* document with pcbs and cases set to undefined.
InputConfigOf(textInput, options) ==
  IF parseConfig(textInput).points /\ options.pointsonly
    THEN [text |-> textInput, stripped |-> TRUE]
    ELSE [text |-> textInput, stripped |-> FALSE]

GenerateMessage(s, textInput, inj, options, dbg) ==
  [type |-> "generate",
   inputConfig |-> InputConfigOf(textInput, options),
   injectionInput |-> inj,
   ver |-> s.currentConfigVersion,
   debug |-> dbg]

(***************************************************************************)
(* runGeneration.  dbg is the debug value its closure holds; postThrows    *)
(* says whether postMessage throws.                                        *)
(***************************************************************************)
\* A variant of runGeneration that increments the version counter only where
\* the generate message is posted.
runGeneration_IncrementOnPost(s, textInput, inj, options, dbg, postThrows) ==
  IF textInput = "" THEN s
  ELSE
    LET parsedConfig == parseConfig(textInput)
        s1 == [s EXCEPT !.error = Null,
                        !.deprecationWarning = <<>>,
                        !.isGenerating = TRUE]
        s2 == IF DeprecatedFootprint(parsedConfig)
                THEN [s1 EXCEPT !.deprecationWarning =
                        <<ScanWarning(s1.currentConfigVersion + 1)>>]
                ELSE s1
        s3 == [s2 EXCEPT !.currentConfigVersion = @ + 1]
    IN IF s2.ergogenWorkerRef # Null
         THEN IF postThrows
                THEN [s2 EXCEPT !.isGenerating = FALSE, !.error = PostError]
                ELSE [s3 EXCEPT !.ergogenInbox =
                        @ \cup {GenerateMessage(s3, textInput, inj, options, dbg)}]
         ELSE s2

\* A variant of runGeneration that does not clear the error text.
runGeneration_KeepsError(s, textInput, inj, options, dbg, postThrows) ==
  IF textInput = "" THEN s
  ELSE
    LET parsedConfig == parseConfig(textInput)
        s1 == [s EXCEPT !.deprecationWarning = <<>>,
                        !.isGenerating = TRUE,
                        !.currentConfigVersion = @ + 1]
        s2 == IF DeprecatedFootprint(parsedConfig)
                THEN [s1 EXCEPT !.deprecationWarning =
                        <<ScanWarning(s1.currentConfigVersion)>>]
                ELSE s1
    IN IF s2.ergogenWorkerRef # Null
         THEN IF postThrows
                THEN [s2 EXCEPT !.isGenerating = FALSE, !.error = PostError]
                ELSE [s2 EXCEPT !.ergogenInbox =
                        @ \cup {GenerateMessage(s2, textInput, inj, options, dbg)}]
         ELSE s2

\* A variant of runGeneration that scans the config it sends: a config
\* stripped of its pcbs raises no deprecation warning.
runGeneration_ScansSentConfig(s, textInput, inj, options, dbg, postThrows) ==
  IF textInput = "" THEN s
  ELSE
    LET parsedConfig == parseConfig(textInput)
        s1 == [s EXCEPT !.error = Null,
                        !.deprecationWarning = <<>>,
                        !.isGenerating = TRUE,
                        !.currentConfigVersion = @ + 1]
        s2 == IF DeprecatedFootprint(parsedConfig)
                   /\ ~InputConfigOf(textInput, options).stripped
                THEN [s1 EXCEPT !.deprecationWarning =
                        <<ScanWarning(s1.currentConfigVersion)>>]
                ELSE s1
    IN IF s2.ergogenWorkerRef # Null
         THEN IF postThrows
                THEN [s2 EXCEPT !.isGenerating = FALSE, !.error = PostError]
                ELSE [s2 EXCEPT !.ergogenInbox =
                        @ \cup {GenerateMessage(s2, textInput, inj, options, dbg)}]
         ELSE s2

\* A variant of runGeneration that resets the error and the warning before
\* it looks at the text.
runGeneration_ResetsBeforeGuard(s, textInput, inj, options, dbg, postThrows) ==
  LET s0 == [s EXCEPT !.error = Null, !.deprecationWarning = <<>>]
  IN IF textInput = "" THEN s0
     ELSE
       LET parsedConfig == parseConfig(textInput)
           s1 == [s0 EXCEPT !.isGenerating = TRUE,
                            !.currentConfigVersion = @ + 1]
           s2 == IF DeprecatedFootprint(parsedConfig)
                   THEN [s1 EXCEPT !.deprecationWarning =
                           <<ScanWarning(s1.currentConfigVersion)>>]
                   ELSE s1
       IN IF s2.ergogenWorkerRef # Null
            THEN IF postThrows
                   THEN [s2 EXCEPT !.isGenerating = FALSE, !.error = PostError]
                   ELSE [s2 EXCEPT !.ergogenInbox =
                           @ \cup {GenerateMessage(s2, textInput, inj, options, dbg)}]
            ELSE s2

runGeneration(s, textInput, inj, options, dbg, postThrows) ==
  IF textInput = "" THEN s
  ELSE
    LET parsedConfig == parseConfig(textInput)
        s1 == [s EXCEPT !.error = Null,
                        !.deprecationWarning = <<>>,
                        !.isGenerating = TRUE,
                        !.currentConfigVersion = @ + 1]
        s2 == IF DeprecatedFootprint(parsedConfig)
                THEN [s1 EXCEPT !.deprecationWarning =
                        <<ScanWarning(s1.currentConfigVersion)>>]
                ELSE s1
    IN IF s2.ergogenWorkerRef # Null
         THEN IF postThrows
                THEN [s2 EXCEPT !.isGenerating = FALSE, !.error = PostError]
                ELSE [s2 EXCEPT !.ergogenInbox =
                        @ \cup {GenerateMessage(s2, textInput, inj, options, dbg)}]
         ELSE s2

\* Whether the call posts a generate message.
Posts(s, textInput, postThrows) ==
  textInput # "" /\ s.ergogenWorkerRef # Null /\ ~postThrows

\* History record of one call of runGeneration.
Call(via, s, textInput, inj, options, dbg, elapsed, coalesced, postThrows) ==
  [via |-> via, textInput |-> textInput, injectionInput |-> inj,
   pointsonly |-> options.pointsonly, debug |-> dbg, elapsed |-> elapsed,
   coalesced |-> coalesced,
   posted |-> Posts(s, textInput, postThrows),
   threw |-> (textInput # "" /\ s.ergogenWorkerRef # Null /\ postThrows)]

(***************************************************************************)
(* processInput = debounce(runGeneration, 300): a call (re)starts the      *)
(* timer of this instance and keeps the latest arguments.  elapsed is      *)
(* history: the time since the last call.                                  *)
(***************************************************************************)
\* A variant of processInput that leaves a running timer as it is: the
\* pending call fires 300 ms after the first call of the burst.
processInput_NoRestart(s, textInput, inj, options, dbg) ==
  [s EXCEPT !.timer = [pending |-> TRUE, textInput |-> textInput,
                       injectionInput |-> inj, pointsonly |-> options.pointsonly,
                       debug |-> dbg,
                       remaining |-> IF s.timer.pending THEN s.timer.remaining
                                                        ELSE DebounceWait,
                       elapsed |-> 0, coalesced |-> s.timer.pending]]

processInput(s, textInput, inj, options, dbg) ==
  [s EXCEPT !.timer = [pending |-> TRUE, textInput |-> textInput,
                       injectionInput |-> inj, pointsonly |-> options.pointsonly,
                       debug |-> dbg, remaining |-> DebounceWait,
                       elapsed |-> 0, coalesced |-> s.timer.pending]]

\* processInput.cancel()
cancel(s) == [s EXCEPT !.timer = NoTimer]

\* A variant of generateNow that abandons the requests already posted to
\* the Ergogen worker.
generateNow_AbandonsEarlier(s, textInput, inj, options, dbg, postThrows) ==
  runGeneration([cancel(s) EXCEPT !.ergogenInbox = {}],
                textInput, inj, options, dbg, postThrows)

\* generateNow: processInput.cancel(); await runGeneration(...)
generateNow(s, textInput, inj, options, dbg, postThrows) ==
  runGeneration(cancel(s), textInput, inj, options, dbg, postThrows)

(***************************************************************************)
(* handleErgogenWorkerMessage.  stlPrev is the stlPreview value its        *)
(* closure holds.                                                          *)
(***************************************************************************)
JscadRequest(s, newResults) ==
  [type |-> "batch_jscad_to_stl", results |-> newResults,
   configVersion |-> s.currentConfigVersion]

\* A variant of handleErgogenWorkerMessage whose error branch does not
\* clear isGenerating.
handleErgogenWorkerMessage_ErrorKeepsBusy(s, response, stlPrev) ==
  IF response.type = "error"
    THEN [s EXCEPT !.error = response.error,
                   !.isJscadConverting = FALSE]
  ELSE IF response.type = "success"
    THEN
      LET s1 == IF Len(response.warnings) > 0
                  THEN [s EXCEPT !.deprecationWarning = @ \o response.warnings]
                  ELSE s
      IN IF response.results # NoResults
           THEN
             LET hasCases == stlPrev /\ response.results.cases \in {"nojscad", "jscad"}
                 newResults == IF hasCases /\ response.results.cases = "jscad"
                                 THEN [response.results EXCEPT !.stl = "undefined"]
                                 ELSE response.results
                 willConvertStl == hasCases /\ s.jscadWorkerRef # Null
                 s2 == IF willConvertStl
                         THEN [s1 EXCEPT !.isJscadConverting = TRUE,
                                         !.jscadInbox = @ \cup {JscadRequest(s1, newResults)}]
                         ELSE s1
                 s3 == [s2 EXCEPT !.results = newResults,
                                  !.resultsVersion = @ + 1]
             IN IF ~willConvertStl THEN [s3 EXCEPT !.isGenerating = FALSE] ELSE s3
           ELSE [s1 EXCEPT !.isGenerating = FALSE]
  ELSE [s EXCEPT !.isGenerating = FALSE]

\* A variant of handleErgogenWorkerMessage that clears isGenerating on
\* every success, also when a conversion was requested.
handleErgogenWorkerMessage_AlwaysClearsBusy(s, response, stlPrev) ==
  IF response.type = "error"
    THEN [s EXCEPT !.error = response.error,
                   !.isGenerating = FALSE,
                   !.isJscadConverting = FALSE]
  ELSE IF response.type = "success"
    THEN
      LET s1 == IF Len(response.warnings) > 0
                  THEN [s EXCEPT !.deprecationWarning = @ \o response.warnings]
                  ELSE s
      IN IF response.results # NoResults
           THEN
             LET hasCases == stlPrev /\ response.results.cases \in {"nojscad", "jscad"}
                 newResults == IF hasCases /\ response.results.cases = "jscad"
                                 THEN [response.results EXCEPT !.stl = "undefined"]
                                 ELSE response.results
                 willConvertStl == hasCases /\ s.jscadWorkerRef # Null
                 s2 == IF willConvertStl
                         THEN [s1 EXCEPT !.isJscadConverting = TRUE,
                                         !.jscadInbox = @ \cup {JscadRequest(s1, newResults)}]
                         ELSE s1
                 s3 == [s2 EXCEPT !.results = newResults,
                                  !.resultsVersion = @ + 1]
             IN [s3 EXCEPT !.isGenerating = FALSE]
           ELSE [s1 EXCEPT !.isGenerating = FALSE]
  ELSE [s EXCEPT !.isGenerating = FALSE]

\* A variant of handleErgogenWorkerMessage that replaces the warning text
\* by the response's warnings.
handleErgogenWorkerMessage_ReplacesWarning(s, response, stlPrev) ==
  IF response.type = "error"
    THEN [s EXCEPT !.error = response.error,
                   !.isGenerating = FALSE,
                   !.isJscadConverting = FALSE]
  ELSE IF response.type = "success"
    THEN
      LET s1 == IF Len(response.warnings) > 0
                  THEN [s EXCEPT !.deprecationWarning = response.warnings]
                  ELSE s
      IN IF response.results # NoResults
           THEN
             LET hasCases == stlPrev /\ response.results.cases \in {"nojscad", "jscad"}
                 newResults == IF hasCases /\ response.results.cases = "jscad"
                                 THEN [response.results EXCEPT !.stl = "undefined"]
                                 ELSE response.results
                 willConvertStl == hasCases /\ s.jscadWorkerRef # Null
                 s2 == IF willConvertStl
                         THEN [s1 EXCEPT !.isJscadConverting = TRUE,
                                         !.jscadInbox = @ \cup {JscadRequest(s1, newResults)}]
                         ELSE s1
                 s3 == [s2 EXCEPT !.results = newResults,
                                  !.resultsVersion = @ + 1]
             IN IF ~willConvertStl THEN [s3 EXCEPT !.isGenerating = FALSE] ELSE s3
           ELSE [s1 EXCEPT !.isGenerating = FALSE]
  ELSE [s EXCEPT !.isGenerating = FALSE]

\* A variant of handleErgogenWorkerMessage that stores the results without
\* incrementing resultsVersion.
handleErgogenWorkerMessage_NoIncrement(s, response, stlPrev) ==
  IF response.type = "error"
    THEN [s EXCEPT !.error = response.error,
                   !.isGenerating = FALSE,
                   !.isJscadConverting = FALSE]
  ELSE IF response.type = "success"
    THEN
      LET s1 == IF Len(response.warnings) > 0
                  THEN [s EXCEPT !.deprecationWarning = @ \o response.warnings]
                  ELSE s
      IN IF response.results # NoResults
           THEN
             LET hasCases == stlPrev /\ response.results.cases \in {"nojscad", "jscad"}
                 newResults == IF hasCases /\ response.results.cases = "jscad"
                                 THEN [response.results EXCEPT !.stl = "undefined"]
                                 ELSE response.results
                 willConvertStl == hasCases /\ s.jscadWorkerRef # Null
                 s2 == IF willConvertStl
                         THEN [s1 EXCEPT !.isJscadConverting = TRUE,
                                         !.jscadInbox = @ \cup {JscadRequest(s1, newResults)}]
                         ELSE s1
                 s3 == [s2 EXCEPT !.results = newResults]
             IN IF ~willConvertStl THEN [s3 EXCEPT !.isGenerating = FALSE] ELSE s3
           ELSE [s1 EXCEPT !.isGenerating = FALSE]
  ELSE [s EXCEPT !.isGenerating = FALSE]

handleErgogenWorkerMessage(s, response, stlPrev) ==
  IF response.type = "error"
    THEN [s EXCEPT !.error = response.error,
                   !.isGenerating = FALSE,
                   !.isJscadConverting = FALSE]
  ELSE IF response.type = "success"
    THEN
      LET s1 == IF Len(response.warnings) > 0
                  THEN [s EXCEPT !.deprecationWarning = @ \o response.warnings]
                  ELSE s
      IN IF response.results # NoResults
           THEN
             LET hasCases == stlPrev /\ response.results.cases \in {"nojscad", "jscad"}
                 newResults == IF hasCases /\ response.results.cases = "jscad"
                                 THEN [response.results EXCEPT !.stl = "undefined"]
                                 ELSE response.results
                 willConvertStl == hasCases /\ s.jscadWorkerRef # Null
                 s2 == IF willConvertStl
                         THEN [s1 EXCEPT !.isJscadConverting = TRUE,
                                         !.jscadInbox = @ \cup {JscadRequest(s1, newResults)}]
                         ELSE s1
                 s3 == [s2 EXCEPT !.results = newResults,
                                  !.resultsVersion = @ + 1]
             IN IF ~willConvertStl THEN [s3 EXCEPT !.isGenerating = FALSE] ELSE s3
           ELSE [s1 EXCEPT !.isGenerating = FALSE]
  ELSE [s EXCEPT !.isGenerating = FALSE]

(***************************************************************************)
(* handleJscadWorkerMessage                                                *)
(***************************************************************************)
\* A variant of handleJscadWorkerMessage without the configVersion check.
handleJscadWorkerMessage_NoVersionCheck(s, response) ==
  IF response.type = "error"
    THEN [s EXCEPT !.isJscadConverting = FALSE, !.isGenerating = FALSE]
  ELSE IF response.type = "success" /\ response.results # NoResults
    THEN [s EXCEPT !.results = response.results,
                   !.resultsVersion = @ + 1,
                   !.isJscadConverting = FALSE,
                   !.isGenerating = FALSE]
  ELSE s

\* A variant of handleJscadWorkerMessage that shows a conversion error as
\* the error text.
handleJscadWorkerMessage_ErrorSetsError(s, response) ==
  IF response.configVersion # s.currentConfigVersion
    THEN s
  ELSE IF response.type = "error"
    THEN [s EXCEPT !.isJscadConverting = FALSE, !.isGenerating = FALSE,
                   !.error = response.error]
  ELSE IF response.type = "success" /\ response.results # NoResults
    THEN [s EXCEPT !.results = response.results,
                   !.resultsVersion = @ + 1,
                   !.isJscadConverting = FALSE,
                   !.isGenerating = FALSE]
  ELSE s

\* A variant of handleJscadWorkerMessage that stores the converted results
\* without incrementing resultsVersion.
handleJscadWorkerMessage_NoIncrement(s, response) ==
  IF response.configVersion # s.currentConfigVersion
    THEN s
  ELSE IF response.type = "error"
    THEN [s EXCEPT !.isJscadConverting = FALSE, !.isGenerating = FALSE]
  ELSE IF response.type = "success" /\ response.results # NoResults
    THEN [s EXCEPT !.results = response.results,
                   !.isJscadConverting = FALSE,
                   !.isGenerating = FALSE]
  ELSE s

handleJscadWorkerMessage(s, response) ==
  IF response.configVersion # s.currentConfigVersion
    THEN s
  ELSE IF response.type = "error"
    THEN [s EXCEPT !.isJscadConverting = FALSE, !.isGenerating = FALSE]
  ELSE IF response.type = "success" /\ response.results # NoResults
    THEN [s EXCEPT !.results = response.results,
                   !.resultsVersion = @ + 1,
                   !.isJscadConverting = FALSE,
                   !.isGenerating = FALSE]
  ELSE s

(***************************************************************************)
(* The workers (ergogen.worker.ts, jscad.worker.ts): one response per      *)
(* request, in any order.                                                  *)
(***************************************************************************)
\* The cases a results document can hold for a config: a full keyboard
\* config yields cases, each with or without a jscad description
\* (CaseOutput.jscad is optional); anything else yields none.
CasesOf(inputConfig) ==
  IF inputConfig.text = "kbd" /\ ~inputConfig.stripped
    THEN {"jscad", "nojscad"}
    ELSE {"none"}

ErgogenResponses(req) ==
  {[type |-> "error", error |-> e, results |-> NoResults,
    warnings |-> <<>>, configVersion |-> 0, cycle |-> req.ver] : e \in WorkerErrors}
  \cup
  {[type |-> "success", error |-> Null,
    results |-> [ver |-> req.ver, cases |-> c, stl |-> "absent"],
    warnings |-> w, configVersion |-> 0, cycle |-> req.ver] :
      c \in CasesOf(req.inputConfig), w \in {<<>>, <<WorkerWarning(req.ver)>>}}

JscadResponses(req) ==
  {[type |-> "error", error |-> "jscad failed", results |-> NoResults,
    warnings |-> <<>>, configVersion |-> req.configVersion,
    cycle |-> req.results.ver],
   [type |-> "success", error |-> Null,
    results |-> IF req.results.cases = "jscad"
                  THEN [req.results EXCEPT !.stl = "mesh"]
                  ELSE req.results,
    warnings |-> <<>>, configVersion |-> req.configVersion,
    cycle |-> req.results.ver]}

(***************************************************************************)
(* Initial state: the provider before its mount effects, with the props    *)
(* and the settings found in local storage.                                *)
(***************************************************************************)
Op(name, response, call) == [name |-> name, response |-> response, call |-> call]

Init ==
  /\ mounted = FALSE
  /\ configInput \in Configs
  /\ injectionInput \in Injections
  /\ debug \in BOOLEAN
  /\ autoGen \in BOOLEAN
  /\ autoGen3D \in BOOLEAN
  /\ stlPreview \in BOOLEAN
  /\ error = Null
  /\ deprecationWarning = <<>>
  /\ results = NoResults
  /\ resultsVersion = 0
  /\ isGenerating = FALSE
  /\ isJscadConverting = FALSE
  /\ ergogenWorkerRef = Null
  /\ jscadWorkerRef = Null
  /\ currentConfigVersion = 0
  /\ ergogenInbox = {}
  /\ jscadInbox = {}
  /\ timer = NoTimer
  /\ orphans = {}
  /\ op = Op("init", NoResponse, NoCall)
  /\ footprintToEdit = emptyFootprint
  /\ autoSaveDue = FALSE
  /\ previewPcb = NoPcb
  /\ previewError = Null
  /\ isPreviewLoading = FALSE
  /\ previewKeyRef = 0
  /\ previewTimeoutRef = FALSE
  /\ previewWorkers = {}

\* runGeneration is explored while the version counter is below MaxVersion.
CanRun(textInput) == textInput = "" \/ currentConfigVersion < MaxVersion

WorkerRefs == {"live", Null}

\* A variant of the auto-generation effect that schedules nothing while a
\* generation is running.
AutoGenEffect_SuppressedWhileBusy(s, cfg, inj, ag, ag3d, dbg) ==
  IF ag /\ ~s.isGenerating
    THEN processInput(s, cfg, inj, [pointsonly |-> ~ag3d], dbg) ELSE s

\* The auto-generation effect, run after a render in which one of
\* configInput, injectionInput, autoGen, autoGen3D, processInput changed.
AutoGenEffect(s, cfg, inj, ag, ag3d, dbg) ==
  IF ag THEN processInput(s, cfg, inj, [pointsonly |-> ~ag3d], dbg) ELSE s

(***************************************************************************)
(* Mount: the effects of the first render, in source order: the hashError  *)
(* effect, the worker effect, the initial-load effect, the auto-generation *)
(* effect.                                                                 *)
(***************************************************************************)
MountWith(hashErrors, ergogenRefs, jscadRefs) ==
  /\ ~mounted
  /\ CanRun(configInput)
  /\ \E hashError \in hashErrors, ew \in ergogenRefs, jw \in jscadRefs,
        postThrows \in BOOLEAN :
       LET s0 == [St EXCEPT !.error = IF hashError # Null THEN hashError ELSE @,
                            !.ergogenWorkerRef = ew,
                            !.jscadWorkerRef = jw]
           initial == hashError = Null /\ configInput # ""
           s1 == IF initial
                   THEN generateNow(s0, configInput, injectionInput,
                                    [pointsonly |-> FALSE], debug, postThrows)
                   ELSE s0
           s2 == AutoGenEffect(s1, configInput, injectionInput, autoGen, autoGen3D, debug)
       IN /\ Commit(s2)
          /\ op' = Op("Mount", NoResponse,
                      IF initial
                        THEN Call("generateNow", s0, configInput, injectionInput,
                                  [pointsonly |-> FALSE], debug, 0, FALSE, postThrows)
                        ELSE NoCall)
  /\ mounted' = TRUE
  /\ UNCHANGED <<configInput, injectionInput, debug, autoGen, autoGen3D,
                 stlPreview, orphans>>

(***************************************************************************)
(* Edits and settings.  A setter called with the current value does not    *)
(* render again, so each action changes the value.                         *)
(***************************************************************************)
setConfigInput(c) ==
  /\ mounted
  /\ c # configInput
  /\ configInput' = c
  /\ Commit(AutoGenEffect(St, c, injectionInput, autoGen, autoGen3D, debug))
  /\ op' = Op("setConfigInput", NoResponse, NoCall)
  /\ UNCHANGED <<mounted, injectionInput, debug, autoGen, autoGen3D, stlPreview, orphans>>

setAutoGen ==
  /\ mounted
  /\ autoGen' = ~autoGen
  /\ Commit(AutoGenEffect(St, configInput, injectionInput, ~autoGen, autoGen3D, debug))
  /\ op' = Op("setAutoGen", NoResponse, NoCall)
  /\ UNCHANGED <<mounted, configInput, injectionInput, debug, autoGen3D, stlPreview, orphans>>

\* debug is a dependency of runGeneration, so processInput is rebuilt:
\* debounce(runGeneration, 300) is a new instance with no pending call, and
\* a call pending on the previous instance stays scheduled there.
setDebug ==
  /\ mounted
  /\ timer.pending => Cardinality(orphans) < MaxOrphans
  /\ debug' = ~debug
  /\ orphans' = IF timer.pending THEN orphans \cup {timer} ELSE orphans
  /\ Commit(AutoGenEffect(cancel(St), configInput, injectionInput, autoGen,
                          autoGen3D, ~debug))
  /\ op' = Op("setDebug", NoResponse, NoCall)
  /\ UNCHANGED <<mounted, configInput, injectionInput, autoGen, autoGen3D, stlPreview>>

\* stlPreview is a dependency of handleErgogenWorkerMessage, so the worker
\* effect is cleaned up (both workers terminated, with their messages) and
\* run again (both workers created).
setStlPreview ==
  /\ mounted
  /\ stlPreview' = ~stlPreview
  /\ \E ew \in WorkerRefs, jw \in WorkerRefs :
       Commit([St EXCEPT !.ergogenWorkerRef = ew, !.jscadWorkerRef = jw,
                         !.ergogenInbox = {}, !.jscadInbox = {}])
  /\ op' = Op("setStlPreview", NoResponse, NoCall)
  /\ UNCHANGED <<mounted, configInput, injectionInput, debug, autoGen, autoGen3D, orphans>>

\* A variant of ClearedError that dismisses the warning along with the error.
ClearedError_AndWarning(s) == [s EXCEPT !.error = Null, !.deprecationWarning = <<>>]

\* clearError: setError(null)
ClearedError(s) == [s EXCEPT !.error = Null]

\* clearWarning: setDeprecationWarning(null)
ClearedWarning(s) == [s EXCEPT !.deprecationWarning = <<>>]

\* With no error shown setError(null) changes nothing (no render).
clearError ==
  /\ mounted
  /\ error # Null
  /\ Commit(ClearedError(St))
  /\ op' = Op("clearError", NoResponse, NoCall)
  /\ UNCHANGED <<mounted, configInput, injectionInput, debug, autoGen, autoGen3D,
                 stlPreview, orphans>>

clearWarning ==
  /\ mounted
  /\ deprecationWarning # <<>>
  /\ Commit(ClearedWarning(St))
  /\ op' = Op("clearWarning", NoResponse, NoCall)
  /\ UNCHANGED <<mounted, configInput, injectionInput, debug, autoGen, autoGen3D,
                 stlPreview, orphans>>

(***************************************************************************)
(* The Generate button and hotkey (Ergogen.tsx): generateNow with the      *)
(* current config and injections, pointsonly false.                        *)
(***************************************************************************)
GenerateNow ==
  /\ mounted
  /\ CanRun(configInput)
  /\ \E postThrows \in BOOLEAN :
       /\ Commit(generateNow(St, configInput, injectionInput,
                             [pointsonly |-> FALSE], debug, postThrows))
       /\ op' = Op("generateNow", NoResponse,
                   Call("generateNow", St, configInput, injectionInput,
                        [pointsonly |-> FALSE], debug, 0, FALSE, postThrows))
  /\ UNCHANGED <<mounted, configInput, injectionInput, debug, autoGen, autoGen3D,
                 stlPreview, orphans>>

(***************************************************************************)
(* Debounce timers                                                         *)
(***************************************************************************)
Mount == MountWith(HashErrors, WorkerRefs, WorkerRefs)

Pending == (IF timer.pending THEN {timer} ELSE {}) \cup orphans

Min(a, b) == IF a < b THEN a ELSE b

Advance(t, d) == [t EXCEPT !.remaining = @ - d,
                           !.elapsed = Min(DebounceWait, @ + d)]

\* Time passes, up to the next expiry.
Tick ==
  /\ Pending # {}
  /\ \A t \in Pending : t.remaining > 0
  /\ LET d == CHOOSE d \in 1..TickMs :
                /\ \A t \in Pending : d <= t.remaining
                /\ d = TickMs \/ \E t \in Pending : d = t.remaining
     IN /\ Commit([St EXCEPT !.timer = IF @.pending THEN Advance(@, d) ELSE @])
        /\ orphans' = {Advance(t, d) : t \in orphans}
  /\ op' = Op("Tick", NoResponse, NoCall)
  /\ UNCHANGED <<mounted, configInput, injectionInput, debug, autoGen, autoGen3D,
                 stlPreview>>

\* The timer of the current processInput expires: runGeneration with the
\* arguments of the last call.
TimerFire ==
  /\ timer.pending
  /\ timer.remaining = 0
  /\ CanRun(timer.textInput)
  /\ \E postThrows \in BOOLEAN :
       /\ Commit(runGeneration(cancel(St), timer.textInput, timer.injectionInput,
                               [pointsonly |-> timer.pointsonly], timer.debug,
                               postThrows))
       /\ op' = Op("TimerFire", NoResponse,
                   Call("timer", St, timer.textInput, timer.injectionInput,
                        [pointsonly |-> timer.pointsonly], timer.debug,
                        timer.elapsed, timer.coalesced, postThrows))
  /\ UNCHANGED <<mounted, configInput, injectionInput, debug, autoGen, autoGen3D,
                 stlPreview, orphans>>

\* The timer of an earlier processInput instance expires.
OrphanFire ==
  \E t \in orphans :
    /\ t.remaining = 0
    /\ CanRun(t.textInput)
    /\ \E postThrows \in BOOLEAN :
         /\ Commit(runGeneration(St, t.textInput, t.injectionInput,
                                 [pointsonly |-> t.pointsonly], t.debug, postThrows))
         /\ op' = Op("OrphanFire", NoResponse,
                     Call("orphan", St, t.textInput, t.injectionInput,
                          [pointsonly |-> t.pointsonly], t.debug, t.elapsed,
                          t.coalesced, postThrows))
    /\ orphans' = orphans \ {t}
    /\ UNCHANGED <<mounted, configInput, injectionInput, debug, autoGen, autoGen3D,
                   stlPreview>>

(***************************************************************************)
(* Worker responses                                                        *)
(***************************************************************************)
ErgogenDeliver(reqs) ==
  \E req \in reqs : \E response \in ErgogenResponses(req) :
    /\ Commit(handleErgogenWorkerMessage(
                [St EXCEPT !.ergogenInbox = @ \ {req}], response, stlPreview))
    /\ op' = Op("handleErgogenWorkerMessage", response, NoCall)
    /\ UNCHANGED <<mounted, configInput, injectionInput, debug, autoGen, autoGen3D,
                   stlPreview, orphans>>

JscadDeliver(reqs) ==
  \E req \in reqs : \E response \in JscadResponses(req) :
    /\ Commit(handleJscadWorkerMessage(
                [St EXCEPT !.jscadInbox = @ \ {req}], response))
    /\ op' = Op("handleJscadWorkerMessage", response, NoCall)
    /\ UNCHANGED <<mounted, configInput, injectionInput, debug, autoGen, autoGen3D,
                   stlPreview, orphans>>

\* A worker answers any of its unanswered requests.
ErgogenWorkerMessage == ErgogenDeliver(ergogenInbox)
JscadWorkerMessage == JscadDeliver(jscadInbox)

\* A worker answers its requests in the order it received them.
OldestGenerate == {r \in ergogenInbox : \A q \in ergogenInbox : r.ver <= q.ver}
OldestBatch == {r \in jscadInbox : \A q \in jscadInbox : r.results.ver <= q.results.ver}
ErgogenWorkerMessageInOrder == ErgogenDeliver(OldestGenerate)
JscadWorkerMessageInOrder == JscadDeliver(OldestBatch)

(***************************************************************************)
(* Spec: the pipeline.  Every operation that reads or writes the results,  *)
(* the flags or a worker: mount, edits of the config, the Generate button, *)
(* the stlPreview setting, and the responses of both workers.  Auto-       *)
(* generation is off, so every dispatch is a generateNow; the injections   *)
(* and the debug setting are fixed, since no handler reads them.           *)
(***************************************************************************)
InitPipeline ==
  Init /\ injectionInput = "inj0" /\ debug = FALSE /\ autoGen = FALSE

Next ==
  \/ Mount
  \/ \E c \in Configs : setConfigInput(c)
  \/ setStlPreview
  \/ clearError
  \/ clearWarning
  \/ GenerateNow
  \/ ErgogenWorkerMessage
  \/ JscadWorkerMessage

Spec == InitPipeline /\ [][Next]_vars

(***************************************************************************)
(* FootprintManager: the injection list and the edit selection.  Keys are  *)
(* the 0-based indices of the source; entry k of the list is               *)
(* injectionInput[k + 1].                                                  *)
(***************************************************************************)
MaxInjections == 3

FootprintNames == {"a", "b"}
FootprintContents == {"x", "y"}
\* the content createFootprint gives a new footprint
NewFootprintContent == "x"

\* Injections of the list: footprints, and one that is not a footprint.
InjectionEntries ==
  {<<"footprint", n, c>> : n \in FootprintNames, c \in FootprintContents}
    \cup {<<"template", "t", "z">>}

RECURSIVE InjectionLists(_)
InjectionLists(n) ==
  IF n = 0 THEN {<<>>}
  ELSE LET shorter == InjectionLists(n - 1)
       IN shorter \cup {Append(l, e) : l \in {s \in shorter : Len(s) = n - 1},
                                       e \in InjectionEntries}

\* The state the FootprintManager handlers read and write.
Fm == [injectionInput |-> injectionInput, footprintToEdit |-> footprintToEdit]

\* Array.prototype.filter((_, i) => i !== key)
RECURSIVE Without(_, _)
Without(list, key) ==
  IF list = <<>> THEN <<>>
  ELSE IF key = 0 THEN Tail(list)
  ELSE <<Head(list)>> \o Without(Tail(list), key - 1)

\* The footprints rendered in the list, with their keys.
footprints(list) ==
  {[key |-> i - 1, type |-> list[i][1], name |-> list[i][2], content |-> list[i][3]] :
     i \in {j \in 1..Len(list) : list[j][1] = "footprint"}}

handleSelectFootprint(f, footprint) == [f EXCEPT !.footprintToEdit = footprint]

createFootprint(f, name) ==
  LET nextKey == Len(f.injectionInput)
  IN [f EXCEPT !.footprintToEdit =
        [key |-> nextKey, type |-> "footprint", name |-> name,
         content |-> NewFootprintContent]]

\* A variant of handleDeleteFootprint that leaves the selection as it is
\* unless the selected footprint is the deleted one.
handleDeleteFootprint_NoReindex(f, footprint) ==
  LET newInjections == Without(f.injectionInput, footprint.key)
  IN IF f.footprintToEdit.key = footprint.key
       THEN [injectionInput |-> newInjections, footprintToEdit |-> emptyFootprint]
       ELSE [injectionInput |-> newInjections, footprintToEdit |-> f.footprintToEdit]

handleDeleteFootprint(f, footprint) ==
  LET newInjections == Without(f.injectionInput, footprint.key)
  IN IF f.footprintToEdit.key = footprint.key
       THEN [injectionInput |-> newInjections, footprintToEdit |-> emptyFootprint]
       ELSE IF f.footprintToEdit.key > footprint.key
         THEN [injectionInput |-> newInjections,
               footprintToEdit |-> [f.footprintToEdit EXCEPT !.key = @ - 1]]
         ELSE [injectionInput |-> newInjections, footprintToEdit |-> f.footprintToEdit]

handleNameChange(f, value) == [f EXCEPT !.footprintToEdit.name = value]

handleCodeChange(f, value) == [f EXCEPT !.footprintToEdit.content = value]

\* One run of the auto-save effect.  saved tells whether it called a setter,
\* which renders again and runs the effect once more.
NotSaved(f) == [injectionInput |-> f.injectionInput,
                footprintToEdit |-> f.footprintToEdit, saved |-> FALSE]

\* A variant of the effect that appends whenever the selected entry differs
\* from the edited footprint.
AutoSave_AppendsOnChange(f) ==
  LET fte == f.footprintToEdit
      editedInjection == <<fte.type, fte.name, fte.content>>
      injections == f.injectionInput
      nextIndex == Len(injections)
  IN IF fte.key = -1 \/ fte.name = "" \/ fte.content = "" THEN NotSaved(f)
     ELSE IF fte.key < nextIndex /\ injections[fte.key + 1] = editedInjection
       THEN NotSaved(f)
       ELSE [injectionInput |-> Append(injections, editedInjection),
             footprintToEdit |-> [fte EXCEPT !.key = nextIndex],
             saved |-> TRUE]

AutoSave(f) ==
  LET fte == f.footprintToEdit
      editedInjection == <<fte.type, fte.name, fte.content>>
      injections == f.injectionInput
      nextIndex == Len(injections)
  IN IF fte.key = -1 \/ fte.name = "" \/ fte.content = "" THEN NotSaved(f)
     ELSE IF nextIndex = 0 \/ nextIndex = fte.key
       THEN [injectionInput |-> Append(injections, editedInjection),
             footprintToEdit |-> [fte EXCEPT !.key = nextIndex],
             saved |-> TRUE]
       ELSE IF fte.key < nextIndex /\ injections[fte.key + 1] = editedInjection
         THEN NotSaved(f)
         ELSE [injectionInput |->
                 [i \in 1..nextIndex |->
                    IF i - 1 = fte.key THEN editedInjection ELSE injections[i]],
               footprintToEdit |-> fte,
               saved |-> TRUE]

\* History of a FootprintManager step: the handler and the key it was given.
FmOp(name, key) == [name |-> name, response |-> NoResponse, call |-> NoCall,
                    key |-> key]

providerVars == <<mounted, configInput, debug, autoGen, autoGen3D, stlPreview,
                  error, deprecationWarning, results, resultsVersion,
                  isGenerating, isJscadConverting, ergogenWorkerRef,
                  jscadWorkerRef, currentConfigVersion, ergogenInbox,
                  jscadInbox, timer, orphans>>

\* The auto-preview effect: it clears the timeout and sets a new one if a
\* footprint with content is selected.  It runs after a render with a new
\* footprintToEdit object (handlePreview, a dependency, is rebuilt then).
autoPreviewEffect(pending, fte, setsFootprintToEdit) ==
  IF setsFootprintToEdit THEN fte.key # -1 /\ fte.content # "" ELSE pending

\* A handler's writes, followed by a render: the auto-save effect is due,
\* and the auto-preview effect has run if the handler set footprintToEdit.
FmCommit(f, setsFootprintToEdit) ==
  /\ injectionInput' = f.injectionInput
  /\ footprintToEdit' = f.footprintToEdit
  /\ autoSaveDue' = TRUE
  /\ previewTimeoutRef' = autoPreviewEffect(previewTimeoutRef, f.footprintToEdit,
                                            setsFootprintToEdit)
  /\ UNCHANGED providerVars

\* What a handler other than handlePreview and handleSelectFootprint leaves
\* alone in the preview.
previewShown == <<previewPcb, previewError, isPreviewLoading, previewKeyRef,
                  previewWorkers>>

\* Effects run before the next event is handled.
Idle == mounted /\ ~autoSaveDue

SelectFootprint ==
  /\ Idle
  /\ \E footprint \in footprints(injectionInput) :
       /\ FmCommit(handleSelectFootprint(Fm, footprint), TRUE)
       /\ op' = FmOp("handleSelectFootprint", footprint.key)
  /\ previewPcb' = NoPcb
  /\ previewError' = Null
  /\ UNCHANGED <<isPreviewLoading, previewKeyRef, previewWorkers>>

CreateFootprint ==
  /\ Idle
  /\ Len(injectionInput) < MaxInjections
  /\ \E name \in FootprintNames :
       /\ FmCommit(createFootprint(Fm, name), TRUE)
       /\ op' = FmOp("createFootprint", Len(injectionInput))
  /\ UNCHANGED previewShown

DeleteFootprint ==
  /\ Idle
  /\ \E footprint \in footprints(injectionInput) :
       /\ FmCommit(handleDeleteFootprint(Fm, footprint),
                   footprintToEdit.key >= footprint.key)
       /\ op' = FmOp("handleDeleteFootprint", footprint.key)
  /\ UNCHANGED previewShown

NameChange ==
  /\ Idle
  /\ footprintToEdit.key # -1
  /\ \E value \in FootprintNames \cup {""} :
       /\ value # footprintToEdit.name
       /\ FmCommit(handleNameChange(Fm, value), TRUE)
       /\ op' = FmOp("handleNameChange", footprintToEdit.key)
  /\ UNCHANGED previewShown

CodeChange ==
  /\ Idle
  /\ footprintToEdit.key # -1
  /\ \E value \in FootprintContents \cup {""} :
       /\ value # footprintToEdit.content
       /\ FmCommit(handleCodeChange(Fm, value), TRUE)
       /\ op' = FmOp("handleCodeChange", footprintToEdit.key)
  /\ UNCHANGED previewShown

\* The auto-save effect runs; a setter it calls makes it due again.
AutoSaveEffect ==
  /\ mounted
  /\ autoSaveDue
  /\ LET f == AutoSave(Fm)
     IN /\ injectionInput' = f.injectionInput
        /\ footprintToEdit' = f.footprintToEdit
        /\ autoSaveDue' = f.saved
        /\ previewTimeoutRef' =
             autoPreviewEffect(previewTimeoutRef, f.footprintToEdit,
                               Len(f.injectionInput) > Len(injectionInput))
  /\ op' = FmOp("AutoSaveEffect", footprintToEdit.key)
  /\ UNCHANGED providerVars
  /\ UNCHANGED previewShown

(***************************************************************************)
(* FootprintManager: the preview.  Every handlePreview creates a worker of *)
(* its own; started is the value of previewKeyRef it was created at.       *)
(***************************************************************************)
MaxPreviews == 2

NoPcbError == "No PCB output found in results"
PreviewFailed == "preview failed"
FootprintError == "footprint error"

Pv == [previewPcb |-> previewPcb, previewError |-> previewError,
       isPreviewLoading |-> isPreviewLoading, previewKeyRef |-> previewKeyRef,
       previewWorkers |-> previewWorkers]

PvCommit(pv) ==
  /\ previewPcb' = pv.previewPcb
  /\ previewError' = pv.previewError
  /\ isPreviewLoading' = pv.isPreviewLoading
  /\ previewKeyRef' = pv.previewKeyRef
  /\ previewWorkers' = pv.previewWorkers

handlePreview(pv, fte, throws) ==
  IF fte.key = -1 \/ fte.content = "" THEN pv
  ELSE
    LET p1 == [pv EXCEPT !.previewKeyRef = @ + 1,
                         !.isPreviewLoading = TRUE,
                         !.previewPcb = NoPcb,
                         !.previewError = Null]
    IN IF throws
         THEN [p1 EXCEPT !.previewError = PreviewFailed,
                         !.isPreviewLoading = FALSE]
         ELSE [p1 EXCEPT !.previewWorkers =
                 @ \cup {[started |-> p1.previewKeyRef, name |-> fte.name,
                          content |-> fte.content]}]

\* The answers of a preview worker: a PCB of the footprint it was given,
\* results without a PCB, or an error (an error event is handled alike).
PreviewResponses(w) ==
  {[type |-> "success", pcb |-> [name |-> w.name, content |-> w.content], error |-> Null],
   [type |-> "success", pcb |-> NoPcb, error |-> Null],
   [type |-> "error", pcb |-> NoPcb, error |-> FootprintError]}

\* worker.onmessage and worker.onerror of the worker w
onmessage(pv, w, response) ==
  LET p1 == IF response.type = "success"
              THEN IF response.pcb # NoPcb
                     THEN [pv EXCEPT !.previewPcb = response.pcb,
                                     !.previewError = Null]
                     ELSE [pv EXCEPT !.previewError = NoPcbError]
              ELSE [pv EXCEPT !.previewError = response.error]
  IN [p1 EXCEPT !.isPreviewLoading = FALSE,
                !.previewWorkers = @ \ {w}]

\* The auto-preview timeout expires.
PreviewTimeout ==
  /\ Idle
  /\ previewTimeoutRef
  /\ previewKeyRef < MaxPreviews
  /\ \E throws \in BOOLEAN : PvCommit(handlePreview(Pv, footprintToEdit, throws))
  /\ previewTimeoutRef' = FALSE
  /\ op' = FmOp("handlePreview", previewKeyRef + 1)
  /\ UNCHANGED <<injectionInput, footprintToEdit, autoSaveDue>>
  /\ UNCHANGED providerVars

\* The Refresh button, disabled while a preview is loading.
RefreshPreview ==
  /\ Idle
  /\ footprintToEdit.key # -1
  /\ ~isPreviewLoading
  /\ previewKeyRef < MaxPreviews
  /\ \E throws \in BOOLEAN : PvCommit(handlePreview(Pv, footprintToEdit, throws))
  /\ op' = FmOp("handlePreview", previewKeyRef + 1)
  /\ UNCHANGED <<injectionInput, footprintToEdit, autoSaveDue, previewTimeoutRef>>
  /\ UNCHANGED providerVars

\* A preview worker answers, in any order.
PreviewWorkerMessage ==
  /\ \E w \in previewWorkers :
       \E response \in PreviewResponses(w) :
         /\ PvCommit(onmessage(Pv, w, response))
         /\ op' = [FmOp("onmessage", w.started) EXCEPT !.response.type = response.type]
  /\ UNCHANGED <<injectionInput, footprintToEdit, autoSaveDue, previewTimeoutRef>>
  /\ UNCHANGED providerVars

\* SpecFootprints: the manager open on a stored injection list, nothing
\* selected, the pipeline at rest with auto-generation off.
InitFootprints ==
  /\ mounted = TRUE
  /\ configInput = ""
  /\ injectionInput \in InjectionLists(MaxInjections)
  /\ debug = FALSE
  /\ autoGen = FALSE
  /\ autoGen3D = FALSE
  /\ stlPreview = FALSE
  /\ error = Null
  /\ deprecationWarning = <<>>
  /\ results = NoResults
  /\ resultsVersion = 0
  /\ isGenerating = FALSE
  /\ isJscadConverting = FALSE
  /\ ergogenWorkerRef = "live"
  /\ jscadWorkerRef = "live"
  /\ currentConfigVersion = 0
  /\ ergogenInbox = {}
  /\ jscadInbox = {}
  /\ timer = NoTimer
  /\ orphans = {}
  /\ op = FmOp("init", -1)
  /\ footprintToEdit = emptyFootprint
  /\ autoSaveDue = FALSE
  /\ previewPcb = NoPcb
  /\ previewError = Null
  /\ isPreviewLoading = FALSE
  /\ previewKeyRef = 0
  /\ previewTimeoutRef = FALSE
  /\ previewWorkers = {}

NextFootprints ==
  \/ SelectFootprint
  \/ CreateFootprint
  \/ DeleteFootprint
  \/ NameChange
  \/ CodeChange
  \/ AutoSaveEffect

SpecFootprints == InitFootprints /\ [][NextFootprints]_vars

\* SpecPreview: the manager open on two stored footprints, with the preview.
InitPreview ==
  /\ InitFootprints
  /\ injectionInput = <<<<"footprint", "a", "x">>, <<"footprint", "b", "y">>>>

NextPreview ==
  \/ SelectFootprint
  \/ CodeChange
  \/ AutoSaveEffect
  \/ PreviewTimeout
  \/ RefreshPreview
  \/ PreviewWorkerMessage

SpecPreview == InitPreview /\ [][NextPreview]_vars

(***************************************************************************)
(* The archive download.  Both buttons run the same test on the context    *)
(* they rendered with and call createZip when it passes; the operators     *)
(* give the calls of createZip made: one, or none when the handler returns.*)
(***************************************************************************)
\* A variant of the sub-header handler that does not look at the
\* conversion flag.
handleDownloadArchive_IgnoresConverting(s, cfg, inj, dbg, stlPrev) ==
  IF s.results = NoResults \/ cfg = "" \/ s.isGenerating
    THEN {}
    ELSE {[results |-> s.results, configInput |-> cfg, injectionInput |-> inj,
           debug |-> dbg, stlPreview |-> stlPrev]}

\* Ergogen.tsx (sub-header button)
handleDownloadArchive(s, cfg, inj, dbg, stlPrev) ==
  IF s.results = NoResults \/ cfg = "" \/ s.isGenerating \/ s.isJscadConverting
    THEN {}
    ELSE {[results |-> s.results, configInput |-> cfg, injectionInput |-> inj,
           debug |-> dbg, stlPreview |-> stlPrev]}

\* Header.tsx (header button)
Header_handleDownloadArchive(s, cfg, inj, dbg, stlPrev) ==
  IF s.results = NoResults \/ cfg = "" \/ s.isGenerating \/ s.isJscadConverting
    THEN {}
    ELSE {[results |-> s.results, configInput |-> cfg, injectionInput |-> inj,
           debug |-> dbg, stlPreview |-> stlPrev]}

\* A click: the step records whether createZip was called.
Click(button, zip) ==
  /\ mounted
  /\ op' = Op(button,
              IF zip = {} THEN NoResponse
              ELSE [NoResponse EXCEPT !.type = "createZip",
                                      !.results = (CHOOSE z \in zip : TRUE).results],
              NoCall)
  /\ UNCHANGED <<mounted, configInput, injectionInput, debug, autoGen, autoGen3D,
                 stlPreview, error, deprecationWarning, results, resultsVersion,
                 isGenerating, isJscadConverting, ergogenWorkerRef,
                 jscadWorkerRef, currentConfigVersion, ergogenInbox, jscadInbox,
                 timer, orphans>>
  /\ UNCHANGED fmVars

DownloadArchive ==
  Click("Ergogen.handleDownloadArchive",
        handleDownloadArchive(St, configInput, injectionInput, debug, stlPreview))

HeaderDownloadArchive ==
  Click("Header.handleDownloadArchive",
        Header_handleDownloadArchive(St, configInput, injectionInput, debug,
                                     stlPreview))

\* SpecArchive: the pipeline with the two download buttons.
NextArchive ==
  \/ Mount
  \/ \E c \in Configs : setConfigInput(c)
  \/ setStlPreview
  \/ GenerateNow
  \/ ErgogenWorkerMessage
  \/ JscadWorkerMessage
  \/ DownloadArchive
  \/ HeaderDownloadArchive

SpecArchive == InitPipeline /\ [][NextArchive]_vars

\* SpecInOrder: the pipeline with workers that answer in request order.
NextInOrder ==
  \/ Mount
  \/ \E c \in Configs : setConfigInput(c)
  \/ setStlPreview
  \/ clearError
  \/ clearWarning
  \/ GenerateNow
  \/ ErgogenWorkerMessageInOrder
  \/ JscadWorkerMessageInOrder

SpecInOrder == InitPipeline /\ [][NextInOrder]_vars

\* SpecLive: the pipeline with workers that answer every message they hold.
SpecLive ==
  /\ InitPipeline
  /\ [][Next]_vars
  /\ WF_vars(ErgogenWorkerMessage)
  /\ WF_vars(JscadWorkerMessage)

(***************************************************************************)
(* SpecDebounce: the request coordinator.  Every operation that calls,     *)
(* cancels, rebuilds or fires processInput, with time; the workers do not  *)
(* answer.                                                                 *)
(***************************************************************************)
InitDebounce ==
  Init /\ stlPreview = TRUE /\ autoGen3D = FALSE /\ injectionInput = "inj0"

MountDebounce == MountWith({Null}, WorkerRefs, {"live"})

NextDebounce ==
  \/ MountDebounce
  \/ \E c \in Configs : setConfigInput(c)
  \/ setAutoGen
  \/ setDebug
  \/ GenerateNow
  \/ Tick
  \/ TimerFire
  \/ OrphanFire

SpecDebounce == InitDebounce /\ [][NextDebounce]_vars

(***************************************************************************)
(* SpecAuto: auto-generation with the Ergogen worker answering.  Edits     *)
(* are dispatched by the debounce timer, with pointsonly = ~autoGen3D, and *)
(* the initial load by generateNow; the user can dismiss the warning.      *)
(***************************************************************************)
InitAuto ==
  /\ Init
  /\ autoGen = TRUE
  /\ stlPreview = FALSE
  /\ debug = FALSE
  /\ injectionInput = "inj0"

MountAuto == MountWith({Null}, {"live"}, {"live"})

NextAuto ==
  \/ MountAuto
  \/ \E c \in Configs : setConfigInput(c)
  \/ clearWarning
  \/ Tick
  \/ TimerFire
  \/ ErgogenWorkerMessage

SpecAuto == InitAuto /\ [][NextAuto]_vars

(***************************************************************************)
(* SpecMount: the provider left alone.  The mount effects, the timer they  *)
(* schedule and the workers' answers; the user does nothing.               *)
(***************************************************************************)
NextMount ==
  \/ Mount
  \/ Tick
  \/ TimerFire
  \/ ErgogenWorkerMessage
  \/ JscadWorkerMessage

SpecMount == Init /\ [][NextMount]_vars

(***************************************************************************)
(* Properties                                                              *)
(***************************************************************************)
IsErgogen(o) == o.name = "handleErgogenWorkerMessage"
IsJscad(o) == o.name = "handleJscadWorkerMessage"
\* The step called runGeneration with a non-empty config.
RanGeneration(o) == o.call.via # Null /\ o.call.textInput # ""

\* C1: a results document computed for an older RequestVersion never
\* replaces a stored results document computed for a newer one.
C1_StaleNeverReplacesNewer ==
  [][(results # NoResults /\ results' # NoResults) => results'.ver >= results.ver]_vars

\* C2: the JSCAD response of cycle v1, arriving after a generate message of
\* a newer version v2 was posted (here: v2's message is still unanswered),
\* does not change the stored results.
C2_StaleSecondaryIgnored ==
  [][(/\ IsJscad(op')
      /\ \E m \in ergogenInbox : m.ver > op'.response.cycle)
     => results' = results]_vars

\* C3: a JSCAD response whose configVersion differs from
\* currentConfigVersion when it arrives changes none of results,
\* resultsVersion, isGenerating, isJscadConverting, error and warning.
C3_StaleSecondaryChangesNothing ==
  [][(IsJscad(op') /\ op'.response.configVersion # currentConfigVersion)
     => UNCHANGED <<results, resultsVersion, isGenerating, isJscadConverting,
                    error, deprecationWarning>>]_vars

C3_Witness ==
  /\ IsJscad(op)
  /\ op.response.type = "success"
  /\ op.response.configVersion # currentConfigVersion

FiresOnce(t) ==
  LET options == [pointsonly |-> t.pointsonly]
      message == GenerateMessage([currentConfigVersion |-> currentConfigVersion'],
                                 t.textInput, t.injectionInput, options, t.debug)
  IN /\ t.remaining = 0
     /\ t.elapsed = DebounceWait
     /\ currentConfigVersion' =
          currentConfigVersion + (IF t.textInput # "" THEN 1 ELSE 0)
     /\ op'.call.posted <=>
          (t.textInput # "" /\ ergogenWorkerRef # Null /\ ~op'.call.threw)
     /\ ergogenInbox' =
          (IF op'.call.posted THEN ergogenInbox \cup {message} ELSE ergogenInbox)
     /\ op'.call.posted => message \notin ergogenInbox

C5_GenerateNowCancelsPending ==
  [][op'.name = "generateNow" => \A t \in Pending' : t.textInput = ""]_vars

\* C6: after a primary error response the error text is the response's
\* message, isGenerating is false, no request went to the JSCAD worker and
\* the stored results are unchanged.
C6_PrimaryErrorAborts ==
  [][(IsErgogen(op') /\ op'.response.type = "error")
     => /\ error' = op'.response.error
        /\ ~isGenerating'
        /\ jscadInbox' = jscadInbox
        /\ results' = results
        /\ resultsVersion' = resultsVersion]_vars

C6_Witness ==
  /\ IsErgogen(op)
  /\ op.response.type = "error"
  /\ error = op.response.error
  /\ results # NoResults
  /\ ~isGenerating

\* The handler posted exactly one batch_jscad_to_stl request.
PostedOneBatch ==
  \E r \in jscadInbox' :
    /\ r \notin jscadInbox
    /\ jscadInbox' = jscadInbox \cup {r}
    /\ r.type = "batch_jscad_to_stl"

OwesConversion(o) ==
  /\ IsErgogen(o)
  /\ o.response.type = "success"
  /\ o.response.results.cases = "jscad"
  /\ o.response.results.stl = "absent"

\* C7 as claimed: a primary success with a case that has jscad and no stl,
\* with stlPreview on, leaves isGenerating true and posts one request.
C7_ConversionOwedKeepsBusy ==
  [][(OwesConversion(op') /\ stlPreview) => (isGenerating' /\ PostedOneBatch)]_vars

\* C7, amended: the same when the JSCAD worker is available
\* (jscadWorkerRef is not null); isGenerating, true on arrival, stays true.
C7_ConversionOwedKeepsBusyIfWorker ==
  [][(OwesConversion(op') /\ stlPreview /\ jscadWorkerRef # Null /\ isGenerating)
     => (isGenerating' /\ isJscadConverting' /\ PostedOneBatch)]_vars

C7_Witness ==
  /\ OwesConversion(op)
  /\ stlPreview
  /\ jscadWorkerRef # Null
  /\ isGenerating
  /\ \E r \in jscadInbox : r.results.ver = op.response.cycle

\* C8: while a JSCAD request stamped with the current version is unanswered
\* and no newer dispatch is made, a JSCAD response with another
\* configVersion leaves the results and isGenerating alone, and isGenerating
\* becomes false only by the JSCAD response whose configVersion is the
\* current version.
C8_BusyFollowsMatchingSecondary ==
  [][(/\ \E r \in jscadInbox : r.configVersion = currentConfigVersion
      /\ currentConfigVersion' = currentConfigVersion)
     => /\ (IsJscad(op') /\ op'.response.configVersion # currentConfigVersion)
             => (results' = results /\ isGenerating' = isGenerating)
        /\ (isGenerating /\ ~isGenerating')
             => (IsJscad(op') /\ op'.response.configVersion = currentConfigVersion)]_vars

\* C9: a runGeneration call with a non-empty config that posts no message
\* (worker unavailable, or postMessage threw) ends with isGenerating false
\* and the error text set.
C9_DispatchFailureSurfaced ==
  [][(RanGeneration(op') /\ ~op'.call.posted)
     => (~isGenerating' /\ error' # Null)]_vars

\* C10 as claimed: the version grows by 1 in a step that posts a generate
\* message and by 0 in every other step.
C10_VersionCountsPostedMessages ==
  [][currentConfigVersion' =
       currentConfigVersion + (IF op'.call.posted THEN 1 ELSE 0)]_vars

\* C10, amended: the version grows by 1 in a step that calls runGeneration
\* with a non-empty config (whether or not the message is then posted) and
\* by 0 in every other step.
C10_VersionCountsRunGeneration ==
  [][currentConfigVersion' =
       currentConfigVersion + (IF RanGeneration(op') THEN 1 ELSE 0)]_vars

C10_Witness ==
  /\ op.call.via = "timer"
  /\ op.call.posted
  /\ currentConfigVersion = 2
  /\ \E m \in ergogenInbox : m.ver = 2

\* C11: every batch_jscad_to_stl request carries as configVersion the
\* RequestVersion of the generate message that produced its results.
C11_RequestStampedWithItsCycle ==
  \A r \in jscadInbox : r.configVersion = r.results.ver

\* The JSCAD response of this step passed the version check.
Accepted(o) == IsJscad(o) /\ o.response.configVersion = currentConfigVersion

\* C12: an accepted JSCAD success merges the meshes into the stored
\* document: what the store held apart from the meshes (here: which cycle's
\* document it is, and its cases) is kept; resultsVersion grows by 1 and
\* isGenerating becomes false.
C12_AcceptedSuccessMerges ==
  [][(Accepted(op') /\ op'.response.type = "success")
     => /\ results'.ver = results.ver
        /\ results'.cases = results.cases
        /\ resultsVersion' = resultsVersion + 1
        /\ ~isGenerating']_vars

\* C13: an accepted JSCAD error sets isGenerating and isJscadConverting to
\* false and changes neither results, resultsVersion nor the error text.
C13_AcceptedErrorKeepsResults ==
  [][(Accepted(op') /\ op'.response.type = "error")
     => /\ ~isGenerating'
        /\ ~isJscadConverting'
        /\ UNCHANGED <<results, resultsVersion, error>>]_vars

C13_Witness ==
  /\ Accepted(op)
  /\ op.response.type = "error"
  /\ results.stl = "undefined"
  /\ results.ver = op.response.cycle
  /\ error = Null
  /\ ~isGenerating

\* C14: resultsVersion never decreases; it grows by 1 with a primary
\* success that carries results and with an accepted JSCAD success, hence in
\* every step that changes the stored results; it is unchanged by a
\* discarded response and by an error response.
C14_ResultsVersionCountsChanges ==
  [][/\ resultsVersion' >= resultsVersion
     /\ results' # results => resultsVersion' = resultsVersion + 1
     /\ (IsErgogen(op') /\ op'.response.type = "success"
           /\ op'.response.results # NoResults)
          => resultsVersion' = resultsVersion + 1
     /\ (Accepted(op') /\ op'.response.type = "success")
          => resultsVersion' = resultsVersion + 1
     /\ (IsErgogen(op') /\ op'.response.type = "error")
          => resultsVersion' = resultsVersion
     /\ (IsJscad(op') /\ (~Accepted(op') \/ op'.response.type = "error"))
          => resultsVersion' = resultsVersion]_vars

C14_Witness ==
  /\ Accepted(op)
  /\ op.response.type = "success"
  /\ results.stl = "mesh"
  /\ resultsVersion = 2

\* C15: a dispatch (runGeneration with a non-empty config) leaves no error
\* and no warning of before it: afterwards the error text is none (or the
\* error of its own failed postMessage), the warning text holds at most the
\* warning of its own scan, and isGenerating is true unless postMessage threw.
C15_DispatchClearsErrorAndWarning ==
  [][RanGeneration(op')
     => /\ error' = (IF op'.call.threw THEN PostError ELSE Null)
        /\ \A i \in 1..Len(deprecationWarning') :
             deprecationWarning'[i] = ScanWarning(currentConfigVersion')
        /\ ~op'.call.threw => isGenerating']_vars

C15_Witness ==
  /\ op.name = "generateNow"
  /\ op.call.posted
  /\ currentConfigVersion = 2
  /\ results # NoResults
  /\ error = Null
  /\ deprecationWarning = <<>>
  /\ isGenerating

\* C16: a primary success appends its warnings to the warning text (the
\* scan's warning and any earlier line stay), and a dispatch resets the
\* text, so that it holds no line of an earlier cycle.
C16_WarningsAppendWithinCycle ==
  [][/\ (IsErgogen(op') /\ op'.response.type = "success")
          => deprecationWarning' = deprecationWarning \o op'.response.warnings
     /\ RanGeneration(op')
          => \A i \in 1..Len(deprecationWarning') :
               deprecationWarning'[i][2] = currentConfigVersion']_vars

C16_Witness ==
  /\ IsErgogen(op)
  /\ op.response.type = "success"
  /\ deprecationWarning = <<ScanWarning(currentConfigVersion),
                            WorkerWarning(currentConfigVersion)>>

\* The text of a generate message's config has a deprecated footprint.
Deprecated(textInput) == DeprecatedFootprint(parseConfig(textInput))

\* The primary response of this step answers a dispatch of a config with a
\* deprecated footprint.
AnswersDeprecated(o) ==
  /\ IsErgogen(o)
  /\ \E m \in ergogenInbox :
       m.ver = o.response.cycle /\ Deprecated(m.inputConfig.text)

\* C17 as claimed: after the primary response of a cycle whose config has a
\* deprecated footprint is handled, the warning text contains the KiCad 5
\* message.
C17_DeprecationWarningAfterResponse ==
  [][AnswersDeprecated(op')
     => \E i \in 1..Len(deprecationWarning') :
          deprecationWarning'[i][1] = KiCad5Warning]_vars

\* C17, amended: the dispatch of such a config sets the warning text to the
\* KiCad 5 message, whatever pointsonly is, and handling a primary response
\* (success or error) removes no line of the warning text; so the message
\* is there after the response unless the warning was dismissed or a newer
\* dispatch reset it in between.
C17_DeprecationWarningKept ==
  [][/\ (RanGeneration(op') /\ Deprecated(op'.call.textInput))
          => deprecationWarning' = <<ScanWarning(currentConfigVersion')>>
     /\ IsErgogen(op')
          => /\ Len(deprecationWarning') >= Len(deprecationWarning)
             /\ \A i \in 1..Len(deprecationWarning) :
                  deprecationWarning'[i] = deprecationWarning[i]]_vars

C17_Witness ==
  /\ IsErgogen(op)
  /\ op.response.type = "success"
  /\ op.response.cycle = currentConfigVersion
  /\ results.ver = currentConfigVersion
  /\ results.cases = "none"
  /\ deprecationWarning = <<ScanWarning(currentConfigVersion),
                            WorkerWarning(currentConfigVersion)>>
  /\ ~autoGen3D

\* C18: the generate message carries the text of the call; it is stripped
\* of pcbs and cases exactly when pointsonly is set and the text parses to
\* a document with points; a text that does not parse so raises neither an
\* error nor a warning.
C18_MessageConfig ==
  [][/\ op'.call.posted
          => \E m \in ergogenInbox' :
               /\ m \notin ergogenInbox
               /\ ergogenInbox' = ergogenInbox \cup {m}
               /\ m.inputConfig.text = op'.call.textInput
               /\ m.inputConfig.stripped <=>
                    (op'.call.pointsonly /\ parseConfig(op'.call.textInput).points)
     /\ (RanGeneration(op') /\ ~parseConfig(op'.call.textInput).points
           /\ ~op'.call.threw)
          => (error' = Null /\ deprecationWarning' = <<>>)]_vars

C18_Witness ==
  /\ op.call.posted
  /\ op.call.pointsonly
  /\ op.call.textInput = "kbd"
  /\ \E m \in ergogenInbox :
       /\ m.ver = currentConfigVersion
       /\ m.inputConfig.stripped
  /\ \E m \in ergogenInbox :
       /\ m.inputConfig.text = "kle"
       /\ ~m.inputConfig.stripped

\* The handler of this step posted a request to the JSCAD worker.
PostedBatch == jscadInbox' # jscadInbox

\* C19: a primary success that owes no conversion (stlPreview off, or no
\* case with jscad) ends with isGenerating false and posts no request.
C19_NoConversionOwedClearsBusy ==
  [][(/\ IsErgogen(op')
      /\ op'.response.type = "success"
      /\ (~stlPreview \/ op'.response.results.cases # "jscad"))
     => (~isGenerating' /\ ~PostedBatch)]_vars

\* C20: with the JSCAD worker available, a primary success posts a JSCAD
\* request exactly if stlPreview is on and a case has jscad and no mesh; the
\* cases with jscad are then marked pending (stl undefined, not absent) in
\* the request.
C20_RequestIffConversionOwed ==
  [][(IsErgogen(op') /\ op'.response.type = "success" /\ jscadWorkerRef # Null)
     => /\ PostedBatch <=> (stlPreview /\ op'.response.results.cases = "jscad")
        /\ \A r \in jscadInbox' \ jscadInbox :
             r.results.cases = "jscad" => r.results.stl = "undefined"]_vars

\* The primary success of this step carries the document the store holds
\* (the same cases), as after a re-trigger with the same config.
IdenticalSuccess(o) ==
  /\ IsErgogen(o)
  /\ o.response.type = "success"
  /\ results # NoResults
  /\ o.response.results.cases = results.cases

\* C21 as claimed: a primary success identical to the one stored leaves the
\* stored content as it was (the same cases, a computed mesh still there)
\* and increases resultsVersion.
C21_IdenticalSuccessKeepsContent ==
  [][IdenticalSuccess(op')
     => /\ results'.cases = results.cases
        /\ results.stl = "mesh" => results'.stl = "mesh"
        /\ resultsVersion' > resultsVersion]_vars

\* C21, amended: such a success leaves the stored content as it was except
\* for the meshes, which are dropped: pending when a conversion is started
\* (stlPreview on, a case with jscad), absent otherwise; resultsVersion
\* grows by 1.
C21_IdenticalSuccessKeepsContentButMeshes ==
  [][IdenticalSuccess(op')
     => /\ results'.cases = results.cases
        /\ results'.stl = (IF stlPreview /\ results.cases = "jscad"
                             THEN "undefined" ELSE "absent")
        /\ resultsVersion' = resultsVersion + 1]_vars

C21_Witness ==
  /\ IsErgogen(op)
  /\ op.response.type = "success"
  /\ op.response.cycle = 2
  /\ results.ver = 2
  /\ results.cases = "jscad"
  /\ results.stl = "undefined"
  /\ resultsVersion = 3
  /\ ergogenInbox = {}

\* C22: after a mount with a hashError, with the user doing nothing, the
\* error text stays the hashError.
C22_HashErrorStays ==
  [][error = "hash error" => error' = "hash error"]_vars

\* C23: clearError (clearWarning) sets the error (warning) text to none and
\* changes nothing else, and applying it twice gives what applying it once
\* gives.
C23_ClearIsIdempotent ==
  [][/\ ClearedError(ClearedError(St)) = ClearedError(St)
     /\ ClearedWarning(ClearedWarning(St)) = ClearedWarning(St)
     /\ op'.name = "clearError"
          => /\ error' = Null
             /\ UNCHANGED <<mounted, configInput, injectionInput, debug, autoGen,
                            autoGen3D, stlPreview, deprecationWarning, results,
                            resultsVersion, isGenerating, isJscadConverting,
                            ergogenWorkerRef, jscadWorkerRef, currentConfigVersion,
                            ergogenInbox, jscadInbox, timer, orphans>>
     /\ op'.name = "clearWarning"
          => /\ deprecationWarning' = <<>>
             /\ UNCHANGED <<mounted, configInput, injectionInput, debug, autoGen,
                            autoGen3D, stlPreview, error, results,
                            resultsVersion, isGenerating, isJscadConverting,
                            ergogenWorkerRef, jscadWorkerRef, currentConfigVersion,
                            ergogenInbox, jscadInbox, timer, orphans>>]_vars

C23_Witness ==
  /\ op.name = "clearError"
  /\ error = Null
  /\ deprecationWarning # <<>>
  /\ results # NoResults

\* C24: at most one generate message and at most one batch_jscad_to_stl
\* message are unanswered at any time.
C24_OneOutstandingRequestEach ==
  Cardinality(ergogenInbox) <= 1 /\ Cardinality(jscadInbox) <= 1

\* C25: generateNow terminates no worker and withdraws no request: the
\* requests posted earlier stay with the workers (and are answered to the
\* handlers later), and its own message is added.
C25_GenerateNowKeepsEarlierRequests ==
  [][op'.name = "generateNow"
     => /\ ergogenInbox \subseteq ergogenInbox'
        /\ jscadInbox' = jscadInbox
        /\ UNCHANGED <<ergogenWorkerRef, jscadWorkerRef>>
        /\ op'.call.posted
             => \E m \in ergogenInbox' \ ergogenInbox :
                  m.ver = currentConfigVersion']_vars

C25_Witness ==
  /\ IsErgogen(op)
  /\ op.response.cycle = 1
  /\ currentConfigVersion = 2
  /\ \E m \in ergogenInbox : m.ver = 2
  /\ mounted
  /\ stlPreview

\* C26: while the generate message of the latest dispatch is unanswered,
\* isGenerating is true.
C26_BusyWhileLatestUnanswered ==
  (\E m \in ergogenInbox : m.ver = currentConfigVersion) => isGenerating

\* C27: every dispatch that posts a generate message is eventually followed
\* by isGenerating = false.
C27_DispatchEventuallyIdle ==
  [](op.call.posted => <>(~isGenerating))

\* C28: isJscadConverting implies isGenerating.
C28_ConvertingImpliesBusy ==
  isJscadConverting => isGenerating

\* C29: every line of the warning text was produced for the latest
\* dispatched version.
C29_WarningsOfLatestVersion ==
  \A i \in 1..Len(deprecationWarning) :
    deprecationWarning[i][2] = currentConfigVersion

\* C30: at most one debounced call is pending, and a timer left pending on
\* an earlier processInput instance does not dispatch when it fires.
C30_RebuildLeavesNoTimer ==
  [][/\ Cardinality(Pending') <= 1
     /\ op'.name = "OrphanFire" => ~RanGeneration(op')]_vars

\* C31: a mount with a non-empty config, no hashError and autoGen on runs
\* generateNow with pointsonly false (version 1) and leaves a debounced call
\* with pointsonly = ~autoGen3D pending for 300 ms; when that timer fires it
\* dispatches the second cycle (version 2) with those arguments.
C31_MountDispatchesTwice ==
  [][/\ (op'.name = "Mount" /\ configInput # "" /\ autoGen /\ error' # "hash error")
        => /\ op'.call.via = "generateNow"
           /\ op'.call.textInput = configInput
           /\ ~op'.call.pointsonly
           /\ currentConfigVersion' = 1
           /\ timer'.pending
           /\ timer'.remaining = DebounceWait
           /\ timer'.textInput = configInput
           /\ timer'.pointsonly = ~autoGen3D
     /\ (op'.name = "TimerFire" /\ configInput # "" /\ currentConfigVersion = 1)
        => /\ op'.call.via = "timer"
           /\ op'.call.textInput = configInput
           /\ op'.call.pointsonly = ~autoGen3D
           /\ op'.call.elapsed = DebounceWait
           /\ currentConfigVersion' = 2
           /\ ~timer'.pending]_vars

C31_Witness ==
  /\ op.name = "TimerFire"
  /\ op.call.posted
  /\ op.call.pointsonly
  /\ currentConfigVersion = 2
  /\ Cardinality(ergogenInbox) = 2
  /\ error = Null

\* C32: runGeneration with an empty config returns at once.  Applied to any
\* reachable state it gives that state back, and a step that calls it with
\* an empty text leaves the version, the flags, the error, the warning, the
\* results and both inboxes as they were.
C32_EmptyConfigChangesNothing ==
  [][/\ \A inj \in Injections, po \in BOOLEAN, dbg \in BOOLEAN, pt \in BOOLEAN :
          runGeneration(St, "", inj, [pointsonly |-> po], dbg, pt) = St
     /\ (op'.call.via # Null /\ op'.call.textInput = "")
        => UNCHANGED <<currentConfigVersion, isGenerating, isJscadConverting,
                       error, deprecationWarning, results, resultsVersion,
                       ergogenInbox, jscadInbox>>]_vars

C32_Witness ==
  /\ op.name = "generateNow"
  /\ op.call.textInput = ""
  /\ error # Null
  /\ results # NoResults
  /\ deprecationWarning # <<>>
  /\ currentConfigVersion = 2

ArchiveButtons == {"Ergogen.handleDownloadArchive", "Header.handleDownloadArchive"}

\* C33: from either button, createZip is called only when results and a
\* config text are there and neither isGenerating nor isJscadConverting is
\* set; in every other state the click changes nothing.
C33_NoArchiveWhileBusy ==
  [][op'.name \in ArchiveButtons
       => /\ op'.response.type = "createZip"
               <=> /\ results # NoResults
                   /\ configInput # ""
                   /\ ~isGenerating
                   /\ ~isJscadConverting
          /\ op'.response.type = "createZip" => op'.response.results = results
          /\ UNCHANGED <<configInput, error, deprecationWarning, results,
                         resultsVersion, isGenerating, isJscadConverting,
                         currentConfigVersion, ergogenInbox, jscadInbox>>]_vars

\* A header click that returned while a conversion was running on stored
\* results.
C33_Witness ==
  /\ op.name = "Header.handleDownloadArchive"
  /\ op.response.type # "createZip"
  /\ results # NoResults
  /\ configInput # ""
  /\ isJscadConverting

\* The entry the selection stands for.
EditedInjection == <<footprintToEdit.type, footprintToEdit.name, footprintToEdit.content>>

\* C34: deleting the footprint at index k removes that entry and no other,
\* keeps the order, and moves the selection with its footprint: none if it
\* was k, one lower if it was above k, unchanged below k; the auto-save
\* effect that runs next changes neither the list nor the selection.
C34_DeleteKeepsSelection ==
  [][/\ op'.name = "handleDeleteFootprint"
        => LET k == op'.key
           IN /\ Len(injectionInput') = Len(injectionInput) - 1
              /\ \A i \in 1..Len(injectionInput') :
                   injectionInput'[i] = injectionInput[IF i - 1 < k THEN i ELSE i + 1]
              /\ footprintToEdit.key = k => footprintToEdit'.key = -1
              /\ footprintToEdit.key > k
                   => footprintToEdit' = [footprintToEdit EXCEPT !.key = @ - 1]
              /\ footprintToEdit.key < k => footprintToEdit' = footprintToEdit
     /\ (op.name = "handleDeleteFootprint" /\ op'.name = "AutoSaveEffect")
        => /\ injectionInput' = injectionInput
           /\ footprintToEdit' = footprintToEdit
           /\ ~autoSaveDue']_vars

\* The entry below the selected footprint has just been deleted; the
\* selection moved down with its footprint.
C34_Witness ==
  /\ op.name = "handleDeleteFootprint"
  /\ op.key = 0
  /\ Len(injectionInput) = 2
  /\ footprintToEdit.key = 1
  /\ footprintToEdit.name = "b"
  /\ injectionInput[2] = EditedInjection
  /\ injectionInput[1] = <<"template", "t", "z">>

\* C35: a run of the auto-save effect with a selection whose name or content
\* is empty, or with none, saves nothing; otherwise it leaves the list as it
\* is, appends the edited footprint (list empty, or key = length) or rewrites
\* the entry at key and no other; and a second run on the state it produced
\* calls no setter.
C35_AutoSaveSettles ==
  [][op'.name = "AutoSaveEffect"
       => LET key == footprintToEdit.key
              n == Len(injectionInput)
          IN /\ (key = -1 \/ footprintToEdit.name = "" \/ footprintToEdit.content = "")
                  => /\ injectionInput' = injectionInput
                     /\ footprintToEdit' = footprintToEdit
             /\ (key >= 0 /\ footprintToEdit.name # "" /\ footprintToEdit.content # "")
                  => IF n = 0 \/ n = key
                       THEN /\ injectionInput' = Append(injectionInput, EditedInjection)
                            /\ footprintToEdit' = [footprintToEdit EXCEPT !.key = n]
                       ELSE /\ Len(injectionInput') = n
                            /\ \A i \in 1..n :
                                 injectionInput'[i] =
                                   IF i - 1 = key THEN EditedInjection
                                                  ELSE injectionInput[i]
                            /\ footprintToEdit' = footprintToEdit
             /\ LET again == AutoSave([injectionInput |-> injectionInput',
                                       footprintToEdit |-> footprintToEdit'])
                IN /\ again.injectionInput = injectionInput'
                   /\ again.footprintToEdit = footprintToEdit'
                   /\ ~again.saved]_vars

\* The effect has just rewritten the middle entry of a list of three.
C35_Witness ==
  /\ op.name = "AutoSaveEffect"
  /\ autoSaveDue
  /\ Len(injectionInput) = 3
  /\ footprintToEdit.key = 1
  /\ injectionInput[2] = EditedInjection
  /\ injectionInput[1] = injectionInput[3]

\* C36: the answer of a preview started before the latest one changes
\* nothing that is shown: previewPcb, previewError and isPreviewLoading stay
\* as they are; and while the latest preview is unanswered the preview is
\* shown as loading.
C36_StalePreviewIgnored ==
  [][/\ (op'.name = "onmessage" /\ op'.key < previewKeyRef)
        => UNCHANGED <<previewPcb, previewError, isPreviewLoading>>
     /\ (\E w \in previewWorkers' : w.started = previewKeyRef') => isPreviewLoading']_vars

====
